---- MODULE Spec2Model ----
(***************************************************************************)
(* The GraphQL resolvers of backend/src/index.js (location wishlist) as a  *)
(* state machine over the relational store (Locations, Suggestions), the   *)
(* GCS bucket, the requests in flight and the upload streams.              *)
(*                                                                         *)
(* Every resolver is cut at its awaits: the store applies one statement    *)
(* at a time, and between two statements of one request any statement of   *)
(* another request may be applied.  The queries of a resolver do not run   *)
(* inside its sequelize.transaction: findOne is handed the transaction in  *)
(* a second argument that Model.findOne does not read, and save(),         *)
(* destroy() and findOrCreate() are handed none, so each statement is      *)
(* committed on its own.                                                   *)
(***************************************************************************)
EXTENDS Integers, Sequences, FiniteSets, Bags, TLC

VARIABLES
  Locations,    \* rows of the Location table
  Suggestions,  \* rows of the Suggestion table
  bucketFiles,  \* names of the objects held by the GCS bucket
  nextLoc,      \* number of Location rows created so far
  nextSug,      \* number of Suggestion rows created so far
  req,          \* the bag of resolver calls in flight
  uploads,      \* uploads[n]: the write stream opened for the n-th Location
  response,     \* what the last step answered to its caller, if it ended a call
  onDelete,     \* what the store does to the Suggestions of a destroyed Location
  upDone,       \* upDone[s]: upVote calls that returned a count for Suggestion s
  downDone,     \* downDone[s]: downVote calls that returned a count for Suggestion s
  calls         \* number of calls that suspended on the store

vars == <<Locations, Suggestions, bucketFiles, nextLoc, nextSug, req, uploads,
          response, onDelete, upDone, downDone, calls>>

store == <<Locations, Suggestions, bucketFiles>>

----------------------------------------------------------------------------
\* Bounds of the model.

MaxLoc == 2

MaxReq == 2

MaxCalls == 5

----------------------------------------------------------------------------
\* Strings are sequences of characters; an identifier is one character.

Whitespace == {" "}

RECURSIVE trimStart(_)
trimStart(s) ==
  IF s # <<>> /\ Head(s) \in Whitespace THEN trimStart(Tail(s)) ELSE s

RECURSIVE trimEnd(_)
trimEnd(s) ==
  IF s # <<>> /\ s[Len(s)] \in Whitespace
    THEN trimEnd(SubSeq(s, 1, Len(s) - 1))
    ELSE s

\* Mutant of trim: the text is compared as it is given.
trimNothing(s) == s

\* String.prototype.trim
trim(s) == trimEnd(trimStart(s))

\* String.prototype.startsWith
startsWith(s, prefix) ==
  /\ Len(prefix) <= Len(s)
  /\ SubSeq(s, 1, Len(prefix)) = prefix

null == <<>>

\* Number.prototype.toString of a row counter: the identifier the store
\* generates for the n-th Location.
LocId(n) == <<ToString(n)>>

----------------------------------------------------------------------------
\* Inputs of the resolvers.

Addresses == {<<>>, <<" ", " ">>, <<" ", "a">>}

\* The texts without a letter are the inputs of the validated arguments only:
\* elsewhere they are looked up and not found, as an unused identifier is.
Words == {<<"a">>}

Ideas == {<<>>, <<" ">>} \cup Words

LocIds == {LocId(n) : n \in 1..MaxLoc}

IdArgs == {<<>>, <<" ">>} \cup LocIds

imagePng == <<"i", "m", "a", "g", "e", "/", "p", "n", "g">>

textPlain == <<"t", "e", "x", "t", "/", "p", "l", "a", "i", "n">>

MimeTypes == {imagePng, textPlain}

\* mime.extension, as the string its result concatenates as: the extension
\* registered for the type, and "false" for a type the table does not hold.
extension(mimetype) ==
  IF mimetype = imagePng THEN <<"p", "n", "g">>
  ELSE IF mimetype = textPlain THEN <<"t", "x", "t">>
  ELSE <<"f", "a", "l", "s", "e">>

gcpBucketName == <<"astoriatech-wishlist-images">>

\* bucket.file(location.id + '.' + mime.extension(mimetype)).name
fileName(id, mimetype) == id \o <<".">> \o extension(mimetype)

\* 'https://storage.cloud.google.com/' + bucket.name + '/' + file.name
publicURL(file) ==
  <<"https://storage.cloud.google.com/">> \o gcpBucketName \o <<"/">> \o file

----------------------------------------------------------------------------
\* The store.

\* The row Location.create({ address }) inserts: the model's defaults for the
\* columns the call leaves out.
newLocation(id, address) ==
  [id |-> id, address |-> address, imageURL |-> null, approved |-> FALSE]

\* Location.findOne({ where: { id } }): the rows that match (none: null).
location(id) == {l \in Locations : l.id = id}

\* Location.findAll
locations == Locations

approvedLocations == {l \in Locations : l.approved = TRUE}

submittedLocations == {l \in Locations : l.approved = FALSE}

\* Mutant of findSuggestion: the join does not restrict the Suggestion to the
\* Location of the call.
findSuggestionAnywhere(id, idea) ==
  {s \in Suggestions : s.idea = idea /\ location(id) # {}}

\* Suggestion.findOne({ where: { idea }, include: [{ model: Location,
\* where: { id } }] }): an inner join with the Location row.
findSuggestion(id, idea) ==
  {s \in Suggestions : s.idea = idea /\ s.LocationId = id /\ location(id) # {}}

\* Mutant of findIdea: where holds the idea alone.
findIdeaAnywhere(LocationId, idea) == {s \in Suggestions : s.idea = idea}

\* The SELECT of Suggestion.findOrCreate({ where: { idea, LocationId } }).
findIdea(LocationId, idea) ==
  {s \in Suggestions : s.idea = idea /\ s.LocationId = LocationId}

\* The (idea, LocationId) index of the Suggestion table refuses the row.
uniqueViolation(LocationId, idea) ==
  \E s \in Suggestions : s.idea = idea /\ s.LocationId = LocationId

\* The foreign key of a cascading store refuses a row whose Location is gone.
foreignKeyViolation(LocationId) ==
  onDelete = "cascade" /\ location(LocationId) = {}

\* Mutant of flip: approving sets the flag.
flipToTrue(approved) == TRUE

\* location.approved = !location.approved
flip(approved) == ~approved

\* Mutant of saveImageURL: the save is not issued.
saveImageURLNever(id, url) == Locations

\* Mutant of saveImageURL: the save inserts the row it does not find.
saveImageURLUpsert(id, url) ==
  IF \E l \in Locations : l.id = id
    THEN {IF l.id = id THEN [l EXCEPT !.imageURL = url] ELSE l : l \in Locations}
    ELSE Locations \cup {[id |-> id, address |-> <<"a">>, imageURL |-> url,
                           approved |-> FALSE]}

\* instance.save() of a row read earlier: UPDATE ... SET <the changed
\* column> WHERE id; no row is inserted when none matches.
saveImageURL(id, url) ==
  {IF l.id = id THEN [l EXCEPT !.imageURL = url] ELSE l : l \in Locations}

saveApproved(id, approved) ==
  {IF l.id = id THEN [l EXCEPT !.approved = approved] ELSE l : l \in Locations}

saveVotes(sid, votes) ==
  {IF s.id = sid THEN [s EXCEPT !.votes = votes] ELSE s : s \in Suggestions}

\* instance.destroy(): DELETE ... WHERE id.
destroyLocation(id) == {l \in Locations : l.id # id}

\* The Suggestions left once the Location is destroyed.
afterDestroy(id) ==
  IF onDelete = "cascade"
    THEN {s \in Suggestions : s.LocationId # id}
    ELSE Suggestions

----------------------------------------------------------------------------
\* Requests and responses.

\* A resolver call suspended at an await: the arguments and locals it holds.
Call(op, pc) ==
  [op |-> op, pc |-> pc, n |-> 0, id |-> <<>>, idea |-> <<>>,
   mimetype |-> <<>>, sid |-> 0, votes |-> 0, approved |-> FALSE]

\* ret: "true", "false", "int" (the count is num), "undefined", or "throw".
Response(op, ret, num, why) == [op |-> op, ret |-> ret, num |-> num, why |-> why]

NoResponse == Response("none", "none", 0, "none")

Bool(b) == IF b THEN "true" ELSE "false"

\* The server takes a new call.
Accepts == BagCardinality(req) < MaxReq

\* The call suspends on the store: the model follows MaxCalls such calls.
Counted ==
  /\ calls < MaxCalls
  /\ calls' = calls + 1

\* The call suspends as c.
Await(c) ==
  /\ Accepts
  /\ Counted
  /\ req' = req (+) SetToBag({c})
  /\ response' = NoResponse

\* The call answers without suspending.
Answer(resp) ==
  /\ Accepts
  /\ calls' = calls
  /\ req' = req
  /\ response' = resp

\* The suspended call c resumes and suspends again as d.
Resume(c, d) ==
  /\ calls' = calls
  /\ req' = (req (-) SetToBag({c})) (+) SetToBag({d})
  /\ response' = NoResponse

\* The suspended call c resumes and answers.
Done(c, resp) ==
  /\ calls' = calls
  /\ req' = req (-) SetToBag({c})
  /\ response' = resp

Init ==
  /\ Locations = {}
  /\ Suggestions = {}
  /\ bucketFiles = {}
  /\ nextLoc = 0
  /\ nextSug = 0
  /\ req = EmptyBag
  /\ uploads = <<>>
  /\ response = NoResponse
  /\ onDelete \in {"cascade", "orphan"}
  /\ upDone = <<>>
  /\ downDone = <<>>
  /\ calls = 0

----------------------------------------------------------------------------
\* addLocation

\* The call up to its first await: the address is validated and the row
\* created.
addLocation(address, mimetype) ==
  IF trim(address) = <<>>
    THEN /\ Answer(Response("addLocation", "throw", 0, "address"))
         /\ UNCHANGED <<store, nextLoc, nextSug, uploads, onDelete, upDone, downDone>>
    ELSE /\ nextLoc < MaxLoc
         /\ nextLoc' = nextLoc + 1
         /\ Locations' = Locations \cup {newLocation(LocId(nextLoc'), address)}
         /\ uploads' = Append(uploads, [id |-> LocId(nextLoc'), mimetype |-> mimetype,
                                        state |-> "none", file |-> <<>>])
         /\ Await([Call("addLocation", "photo") EXCEPT
                     !.n = nextLoc', !.id = LocId(nextLoc'),
                     !.mimetype = mimetype])
         /\ UNCHANGED <<Suggestions, bucketFiles, nextSug, onDelete, upDone, downDone>>

\* Mutant of addLocationPhoto: a refused upload takes its row back.
addLocationPhotoRollback(c) ==
  /\ c.op = "addLocation"
  /\ c.pc = "photo"
  /\ IF ~startsWith(c.mimetype, <<"i", "m", "a", "g", "e">>)
       THEN /\ uploads' = [uploads EXCEPT ![c.n].state = "refused"]
            /\ Locations' = destroyLocation(c.id)
            /\ Done(c, Response("addLocation", "throw", 0, "mimetype"))
       ELSE /\ uploads' = [uploads EXCEPT
                             ![c.n].state = "writing",
                             ![c.n].file = fileName(c.id, c.mimetype)]
            /\ Locations' = Locations
            /\ Done(c, Response("addLocation", "true", 0, "none"))
  /\ UNCHANGED <<Suggestions, bucketFiles, nextLoc, nextSug, onDelete, upDone, downDone>>

\* The upload resolves: its type is checked, the write stream is opened on
\* the bucket file, the handlers are set and the bytes are handed over.
addLocationPhoto(c) ==
  /\ c.op = "addLocation"
  /\ c.pc = "photo"
  /\ IF ~startsWith(c.mimetype, <<"i", "m", "a", "g", "e">>)
       THEN /\ uploads' = [uploads EXCEPT ![c.n].state = "refused"]
            /\ Done(c, Response("addLocation", "throw", 0, "mimetype"))
       ELSE /\ uploads' = [uploads EXCEPT
                             ![c.n].state = "writing",
                             ![c.n].file = fileName(c.id, c.mimetype)]
            /\ Done(c, Response("addLocation", "true", 0, "none"))
  /\ UNCHANGED <<store, nextLoc, nextSug, onDelete, upDone, downDone>>

\* Mutant of streamError: the handler takes the row of the failed upload back.
streamErrorRollback(n) ==
  /\ n \in 1..Len(uploads)
  /\ uploads[n].state = "writing"
  /\ uploads' = [m \in 1..Len(uploads) |->
                   IF m = n THEN [uploads[m] EXCEPT !.state = "error"]
                   ELSE IF uploads[m].state \in {"writing", "finished"}
                     THEN [uploads[m] EXCEPT !.state = "aborted"]
                   ELSE uploads[m]]
  /\ Locations' = destroyLocation(uploads[n].id)
  /\ req' = EmptyBag
  /\ response' = NoResponse
  /\ UNCHANGED <<calls, Suggestions, bucketFiles, nextLoc, nextSug, onDelete,
                 upDone, downDone>>

\* The write fails: the 'error' handler logs the error and calls next, which
\* no scope of the file defines.  The ReferenceError is thrown out of the
\* listener and ends the process: the calls in flight never answer, the
\* other streams never finish, and a save the store has not applied yet (one
\* it has is a locationSave before this step) is lost.  The store and the
\* bucket keep what they hold; the calls that follow are those served by the
\* process started in its place.
streamError(n) ==
  /\ n \in 1..Len(uploads)
  /\ uploads[n].state = "writing"
  /\ uploads' = [m \in 1..Len(uploads) |->
                   IF m = n THEN [uploads[m] EXCEPT !.state = "error"]
                   ELSE IF uploads[m].state \in {"writing", "finished"}
                     THEN [uploads[m] EXCEPT !.state = "aborted"]
                   ELSE uploads[m]]
  /\ req' = EmptyBag
  /\ response' = NoResponse
  /\ UNCHANGED <<calls, store, nextLoc, nextSug, onDelete, upDone, downDone>>

\* The write finishes: the object is in the bucket, and the 'finish' handler
\* sets imageURL on the instance addLocation created and issues its save.
streamFinish(n) ==
  /\ n \in 1..Len(uploads)
  /\ uploads[n].state = "writing"
  /\ bucketFiles' = bucketFiles \cup {uploads[n].file}
  /\ uploads' = [uploads EXCEPT ![n].state = "finished"]
  /\ response' = NoResponse
  /\ UNCHANGED <<calls, Locations, Suggestions, nextLoc, nextSug, req, onDelete,
                 upDone, downDone>>

\* The store applies the save of the 'finish' handler: the UPDATE matches the
\* row ("saved") or, the row being destroyed, none ("missed").
locationSave(n) ==
  /\ n \in 1..Len(uploads)
  /\ uploads[n].state = "finished"
  /\ Locations' = saveImageURL(uploads[n].id, publicURL(uploads[n].file))
  /\ uploads' = [uploads EXCEPT ![n].state =
                   IF location(uploads[n].id) # {} THEN "saved" ELSE "missed"]
  /\ response' = NoResponse
  /\ UNCHANGED <<calls, Suggestions, bucketFiles, nextLoc, nextSug, req, onDelete,
                 upDone, downDone>>

----------------------------------------------------------------------------
\* addIdea

\* The arguments are validated and the Location is looked up.  With no
\* Location the callback reads location.id of null: the TypeError rejects the
\* transaction, .catch(console.error) logs it and resolves to undefined, and
\* destructuring [suggestion, created] from undefined throws out of the call.
addIdea(id, idea) ==
  /\ IF trim(id) = <<>>
       THEN Answer(Response("addIdea", "throw", 0, "id"))
     ELSE IF trim(idea) = <<>>
       THEN Answer(Response("addIdea", "throw", 0, "idea"))
     ELSE IF location(id) = {}
       THEN Answer(Response("addIdea", "throw", 0, "notFound"))
     ELSE Await([Call("addIdea", "findOrCreate") EXCEPT !.id = id, !.idea = idea])
  /\ UNCHANGED <<store, nextLoc, nextSug, uploads, onDelete, upDone, downDone>>

\* findOrCreate looks for the Suggestion of (idea, LocationId).
addIdeaFind(c) ==
  /\ c.op = "addIdea"
  /\ c.pc = "findOrCreate"
  /\ IF findIdea(c.id, c.idea) # {}
       THEN Done(c, Response("addIdea", "false", 0, "none"))
       ELSE Resume(c, [c EXCEPT !.pc = "create"])
  /\ UNCHANGED <<store, nextLoc, nextSug, uploads, onDelete, upDone, downDone>>

\* The row findOrCreate inserts: where and defaults.
newSuggestion(sid, LocationId, idea) ==
  [id |-> sid, idea |-> idea, LocationId |-> LocationId, votes |-> 0]

\* findOrCreate inserts the row it did not find.  A row the unique index
\* refuses was created meanwhile: findOrCreate reads it and reports it as
\* found.  Any other error of the insert leaves the call as a missing
\* Location does.
addIdeaCreate(c) ==
  /\ c.op = "addIdea"
  /\ c.pc = "create"
  /\ IF foreignKeyViolation(c.id)
       THEN /\ Done(c, Response("addIdea", "throw", 0, "foreignKey"))
            /\ UNCHANGED <<Suggestions, nextSug, upDone, downDone>>
     ELSE IF uniqueViolation(c.id, c.idea)
       THEN /\ Done(c, Response("addIdea", "false", 0, "none"))
            /\ UNCHANGED <<Suggestions, nextSug, upDone, downDone>>
     ELSE /\ nextSug' = nextSug + 1
          /\ Suggestions' = Suggestions \cup {newSuggestion(nextSug', c.id, c.idea)}
          /\ upDone' = Append(upDone, 0)
          /\ downDone' = Append(downDone, 0)
          /\ Done(c, Response("addIdea", "true", 0, "none"))
  /\ UNCHANGED <<Locations, bucketFiles, nextLoc, uploads, onDelete>>

----------------------------------------------------------------------------
\* upVote, downVote

\* The Suggestion is looked up.  With none, suggestion.votes of null throws
\* in the callback; .catch(console.error) logs it and the call returns
\* undefined.  With one, suggestion.votes++ sets the instance's votes and
\* save() is issued.
upVote(id, idea) ==
  /\ IF findSuggestion(id, idea) = {}
       THEN Answer(Response("upVote", "undefined", 0, "notFound"))
       ELSE \E s \in findSuggestion(id, idea) :
              Await([Call("upVote", "save") EXCEPT
                          !.id = id, !.idea = idea,
                          !.sid = s.id, !.votes = s.votes + 1])
  /\ UNCHANGED <<store, nextLoc, nextSug, uploads, onDelete, upDone, downDone>>

\* The store applies the save; the call returns the instance's votes.
upVoteSave(c) ==
  /\ c.op = "upVote"
  /\ c.pc = "save"
  /\ Suggestions' = saveVotes(c.sid, c.votes)
  /\ upDone' = [upDone EXCEPT ![c.sid] = @ + 1]
  /\ Done(c, Response("upVote", "int", c.votes, "none"))
  /\ UNCHANGED <<Locations, bucketFiles, nextLoc, nextSug, uploads, onDelete,
                 downDone>>

downVote(id, idea) ==
  /\ IF findSuggestion(id, idea) = {}
       THEN Answer(Response("downVote", "undefined", 0, "notFound"))
       ELSE \E s \in findSuggestion(id, idea) :
              Await([Call("downVote", "save") EXCEPT
                          !.id = id, !.idea = idea,
                          !.sid = s.id, !.votes = s.votes - 1])
  /\ UNCHANGED <<store, nextLoc, nextSug, uploads, onDelete, upDone, downDone>>

downVoteSave(c) ==
  /\ c.op = "downVote"
  /\ c.pc = "save"
  /\ Suggestions' = saveVotes(c.sid, c.votes)
  /\ downDone' = [downDone EXCEPT ![c.sid] = @ + 1]
  /\ Done(c, Response("downVote", "int", c.votes, "none"))
  /\ UNCHANGED <<Locations, bucketFiles, nextLoc, nextSug, uploads, onDelete,
                 upDone>>

----------------------------------------------------------------------------
\* approveLocation, rejectLocation

\* The Location is looked up; with none the call logs the TypeError and
\* returns undefined.  With one, approved is flipped on the instance and
\* save() is issued.
approveLocation(id) ==
  /\ IF location(id) = {}
       THEN Answer(Response("approveLocation", "undefined", 0, "notFound"))
       ELSE \E l \in location(id) :
              Await([Call("approveLocation", "save") EXCEPT
                       !.id = id, !.approved = flip(l.approved)])
  /\ UNCHANGED <<store, nextLoc, nextSug, uploads, onDelete, upDone, downDone>>

\* The store applies the save; the call returns the instance's approved.
approveLocationSave(c) ==
  /\ c.op = "approveLocation"
  /\ c.pc = "save"
  /\ Locations' = saveApproved(c.id, c.approved)
  /\ Done(c, Response("approveLocation", Bool(c.approved), 0, "none"))
  /\ UNCHANGED <<Suggestions, bucketFiles, nextLoc, nextSug, uploads, onDelete,
                 upDone, downDone>>

\* The Location is looked up and destroy() is issued on the instance.
rejectLocation(id) ==
  /\ IF location(id) = {}
       THEN Answer(Response("rejectLocation", "undefined", 0, "notFound"))
       ELSE \E l \in location(id) :
              Await([Call("rejectLocation", "destroy") EXCEPT
                       !.id = id, !.approved = l.approved])
  /\ UNCHANGED <<store, nextLoc, nextSug, uploads, onDelete, upDone, downDone>>

\* The store applies the destroy; the call returns the approved it read.
rejectLocationDestroy(c) ==
  /\ c.op = "rejectLocation"
  /\ c.pc = "destroy"
  /\ Locations' = destroyLocation(c.id)
  /\ Suggestions' = afterDestroy(c.id)
  /\ Done(c, Response("rejectLocation", Bool(c.approved), 0, "none"))
  /\ UNCHANGED <<bucketFiles, nextLoc, nextSug, uploads, onDelete, upDone,
                 downDone>>

----------------------------------------------------------------------------

Next ==
  \/ \E address \in Addresses, mimetype \in MimeTypes : addLocation(address, mimetype)
  \/ \E c \in DOMAIN req : addLocationPhoto(c)
  \/ \E n \in 1..MaxLoc : streamError(n)
  \/ \E n \in 1..MaxLoc : streamFinish(n)
  \/ \E n \in 1..MaxLoc : locationSave(n)
  \/ \E id \in IdArgs, idea \in Ideas : addIdea(id, idea)
  \/ \E c \in DOMAIN req : addIdeaFind(c)
  \/ \E c \in DOMAIN req : addIdeaCreate(c)
  \/ \E id \in LocIds, idea \in Words : upVote(id, idea)
  \/ \E c \in DOMAIN req : upVoteSave(c)
  \/ \E id \in LocIds, idea \in Words : downVote(id, idea)
  \/ \E c \in DOMAIN req : downVoteSave(c)
  \/ \E id \in LocIds : approveLocation(id)
  \/ \E c \in DOMAIN req : approveLocationSave(c)
  \/ \E id \in LocIds : rejectLocation(id)
  \/ \E c \in DOMAIN req : rejectLocationDestroy(c)

Spec == Init /\ [][Next]_vars

\* A stream that is written ends, with 'finish' or with 'error', and the
\* store applies a save it was sent.
Fairness ==
  \A n \in 1..MaxLoc :
    /\ WF_vars(streamFinish(n) \/ streamError(n))
    /\ WF_vars(locationSave(n))

LiveSpec == Init /\ [][Next]_vars /\ Fairness

----------------------------------------------------------------------------
\* Steps, as the claims read them.

\* The call c is taken and suspends.
Starts(c) == req' = req (+) SetToBag({c})

\* The suspended call c answers.
Ends(c) ==
  /\ c \in DOMAIN req
  /\ req' = req (-) SetToBag({c})
  /\ response'.op = c.op

\* The rows of the n-th Location created.
Row(n) == location(LocId(n))

Votes == {"upVote", "downVote"}

Step(op) == IF op = "upVote" THEN 1 ELSE -1

\* The text holds a character that is no whitespace.
HasText(s) == \E i \in 1..Len(s) : s[i] \notin Whitespace

----------------------------------------------------------------------------
\* C1: N upVote calls on one Suggestion that run concurrently leave its votes
\* at the initial votes + N.  A Suggestion starts at 0 votes, so once no vote
\* on it is in flight, and no downVote was cast, its votes are the number of
\* upVote calls that returned.
C1_NoLostUpVote ==
  \A s \in Suggestions :
    (/\ downDone[s.id] = 0
     /\ ~\E c \in DOMAIN req : c.op \in Votes /\ c.sid = s.id)
      => s.votes = upDone[s.id]

\* C6: addIdea with arguments that hold text and the id of no Location
\* creates nothing and returns undefined: the call raises no error.
C6_MissingLocationReturnsUndefined ==
  (response.op = "addIdea" /\ response.why = "notFound")
    => response.ret = "undefined"

\* C7: a vote on (X, idea) sets the votes of X's Suggestion of that idea to
\* the votes the call read plus 1 (upVote) or minus 1 (downVote), returns
\* that count, and leaves every other Suggestion, among them the Suggestion
\* of the same idea under another Location, as it is.
C7_VoteScopedToLocation ==
  [][\A c \in DOMAIN req \cup DOMAIN req' :
       c.op \in Votes =>
         /\ Starts(c) =>
              /\ \E s \in Suggestions :
                   /\ s.id = c.sid
                   /\ s.idea = c.idea
                   /\ s.LocationId = c.id
                   /\ c.votes = s.votes + Step(c.op)
              /\ UNCHANGED store
         /\ Ends(c) =>
              /\ \A s \in Suggestions :
                   IF s.idea = c.idea /\ s.LocationId = c.id
                     THEN [s EXCEPT !.votes = c.votes] \in Suggestions'
                     ELSE s \in Suggestions'
              /\ Cardinality(Suggestions') = Cardinality(Suggestions)
              /\ response'.ret = "int"
              /\ response'.num = c.votes
              /\ UNCHANGED <<Locations, bucketFiles>>]_vars

\* Two Locations hold a Suggestion of the same idea; a vote has just been
\* counted on one and the other still has no vote.
C7_Witness ==
  /\ response.op \in Votes
  /\ response.ret = "int"
  /\ \E s, t \in Suggestions :
       /\ s.idea = t.idea
       /\ s.LocationId # t.LocationId
       /\ s.votes = response.num
       /\ s.votes # 0
       /\ t.votes = 0

\* C8: approveLocation(id) saves the opposite of the approved flag it read
\* and returns it, so that with no write in between the flag of the row is
\* flipped (false to true by a first call, true to false by a second); the
\* address and imageURL of the row, the other rows, the Suggestions and the
\* bucket are unchanged, and the row is in approvedLocations when the flag is
\* true and in submittedLocations when it is false.
C8_ApproveToggles ==
  [][\A c \in DOMAIN req \cup DOMAIN req' :
       c.op = "approveLocation" =>
         /\ Starts(c) =>
              /\ \E l \in location(c.id) : c.approved = ~l.approved
              /\ UNCHANGED store
         /\ Ends(c) =>
              /\ \A l \in Locations :
                   IF l.id = c.id
                     THEN LET saved == [l EXCEPT !.approved = c.approved]
                          IN  /\ saved \in Locations'
                              /\ (saved \in approvedLocations') = c.approved
                              /\ (saved \in submittedLocations') = ~c.approved
                              /\ l.approved = ~c.approved
                                   => [l EXCEPT !.approved = ~l.approved] \in Locations'
                     ELSE l \in Locations'
              /\ Cardinality(Locations') = Cardinality(Locations)
              /\ response'.ret = Bool(c.approved)
              /\ UNCHANGED <<Suggestions, bucketFiles>>]_vars

\* A second approveLocation has taken a Location back to approved = false.
C8_Witness ==
  /\ response.op = "approveLocation"
  /\ response.ret = "false"
  /\ submittedLocations # {}

C10_ValidationLeavesStore ==
  /\ [](/\ \A l \in Locations : HasText(l.address)
        /\ \A s \in Suggestions : HasText(s.idea) /\ HasText(s.LocationId)
        /\ \A c \in DOMAIN req :
             c.op = "addIdea" => HasText(c.id) /\ HasText(c.idea))
  /\ [][(response'.ret = "throw" /\ response'.why \in {"address", "id", "idea"})
          => UNCHANGED store]_vars

\* A call has just been refused for its arguments while the store holds a
\* Location and a Suggestion.
C10_Witness ==
  /\ response.ret = "throw"
  /\ response.why \in {"address", "id", "idea"}
  /\ Locations # {}
  /\ Suggestions # {}

\* C9: addLocation creates exactly one row, with approved = false and
\* imageURL = null, before it looks at the upload; refusing an upload that
\* is no image raises an error and changes no row and no object; the Location
\* of a refused upload never has an object in the bucket, and its imageURL is
\* null in every later state.
C9_RefusedUploadKeepsRow ==
  /\ [](\A n \in 1..Len(uploads) :
          uploads[n].state = "refused" =>
            /\ \A l \in Row(n) : l.imageURL = null
            /\ uploads[n].file \notin bucketFiles
            /\ \A f \in bucketFiles : ~startsWith(f, LocId(n) \o <<".">>))
  /\ [][/\ Len(uploads') # Len(uploads) =>
             \E l \in Locations' :
               /\ l.id = LocId(Len(uploads'))
               /\ location(l.id) = {}
               /\ Locations' = Locations \cup {l}
               /\ l.approved = FALSE
               /\ l.imageURL = null
        /\ \A n \in 1..Len(uploads) :
             (uploads[n].state # "refused" /\ uploads'[n].state = "refused") =>
               /\ uploads[n].mimetype = textPlain
               /\ response'.ret = "throw"
               /\ UNCHANGED store
        /\ \A n \in 1..Len(uploads) :
             (uploads[n].mimetype = textPlain /\ uploads[n].state = "none"
                /\ uploads'[n].state # "none") =>
               uploads'[n].state = "refused"]_vars

\* An upload has just been refused and its row is in the store.
C9_Witness ==
  /\ response.why = "mimetype"
  /\ \E n \in 1..Len(uploads) :
       /\ uploads[n].state = "refused"
       /\ \E l \in Row(n) : l.imageURL = null /\ l.approved = FALSE

\* The imageURL of a row is the URL of an object its write stream finished
\* and its 'finish' handler saved.
ImageOnlyAfterFinish ==
  \A l \in Locations :
    l.imageURL # null =>
      \E n \in 1..Len(uploads) :
        /\ uploads[n].id = l.id
        /\ uploads[n].state = "saved"
        /\ uploads[n].file \in bucketFiles
        /\ l.imageURL = publicURL(uploads[n].file)

\* C3, as claimed: imageURL is non-null only once the write has finished, and
\* from the step in which the write fails the row stays in the store, with
\* imageURL = null, in every later state.
C3_FailedWriteKeepsRowForever ==
  /\ []ImageOnlyAfterFinish
  /\ [][\A n \in 1..Len(uploads) :
          (uploads'[n].state = "error" /\ Row(n) # {}) =>
            /\ Row(n)' # {}
            /\ \A l \in Row(n)' : l.imageURL = null]_vars

\* C3, amended: imageURL is non-null only once the write has finished; from
\* the step in which the write fails the row has imageURL = null for as long
\* as it is in the store, only a rejectLocation of its id takes it out, and
\* the write is not tried again: no object of it reaches the bucket.
C3_FailedWriteKeepsRowUntilRejected ==
  /\ []ImageOnlyAfterFinish
  /\ [][\A n \in 1..Len(uploads) :
          (uploads'[n].state = "error" /\ Row(n) # {}) =>
            /\ \/ Row(n)' # {}
               \/ \E c \in DOMAIN req :
                    c.op = "rejectLocation" /\ c.id = LocId(n) /\ Ends(c)
            /\ \A l \in Row(n)' : l.imageURL = null
            /\ uploads[n].state = "error" => uploads'[n] = uploads[n]
            /\ uploads[n].file \notin bucketFiles']_vars

\* A write has failed and its row is in the store without an imageURL, beside
\* a row whose write finished.
C3_Witness ==
  \E n, m \in 1..Len(uploads) :
    /\ uploads[n].state = "error"
    /\ \E l \in Row(n) : l.imageURL = null
    /\ \E l \in Row(m) : l.imageURL # null

\* C4: once a rejectLocation(id) has destroyed the row, location(id) finds
\* nothing in any later state: no step, the save of a 'finish' handler that
\* runs after the destroy among them, brings a row of that id back.
C4_RejectedStaysAbsent ==
  [][/\ \A n \in 1..Len(uploads) : Row(n) = {} => Row(n)' = {}
     /\ \A c \in DOMAIN req :
          (c.op = "rejectLocation" /\ Ends(c)) => location(c.id)' = {}]_vars

\* The save of a 'finish' handler was applied after the row was destroyed.
C4_Witness ==
  \E n \in 1..Len(uploads) :
    /\ uploads[n].state = "missed"
    /\ uploads[n].file \in bucketFiles
    /\ Row(n) = {}

\* What C2 says of the rows and the objects: addLocation creates exactly one
\* row; an object of the bucket is the file of one upload, named by the id of
\* its Location, and two uploads have two names; the object is in the bucket
\* once the write has finished; and the save of the 'finish' handler sets the
\* imageURL of the row it finds.
OneRowOneObject ==
  /\ [](/\ bucketFiles \subseteq {uploads[n].file : n \in 1..Len(uploads)}
        /\ \A n \in 1..Len(uploads) :
             /\ uploads[n].state \in {"finished", "saved", "missed"}
                  => uploads[n].file \in bucketFiles
             /\ uploads[n].state \notin {"none", "refused"}
                  => startsWith(uploads[n].file, uploads[n].id \o <<".">>)
             /\ \A m \in 1..Len(uploads) :
                  (m # n /\ uploads[n].file # <<>>)
                    => uploads[m].file # uploads[n].file)
  /\ [][/\ Len(uploads') # Len(uploads) =>
             \E l \in Locations' :
               /\ location(l.id) = {}
               /\ Locations' = Locations \cup {l}
        /\ \A n \in 1..Len(uploads) :
             (uploads[n].state = "finished" /\ uploads'[n].state = "saved") =>
               /\ Row(n)' # {}
               /\ \A l \in Row(n)' : l.imageURL = publicURL(uploads[n].file)]_vars

\* The upload of the n-th Location was accepted and its stream is written.
Writing(n) == n <= Len(uploads) /\ uploads[n].state = "writing"

\* The object of the n-th Location is in the bucket and its row has an
\* imageURL.
Attached(n) ==
  /\ n <= Len(uploads)
  /\ uploads[n].file \in bucketFiles
  /\ \E l \in Row(n) : l.imageURL # null

\* The write of the n-th Location failed, or the process ended under it.
Failed(n) == n <= Len(uploads) /\ uploads[n].state \in {"error", "aborted"}

====
